---- MODULE Spec2Model ----
(***************************************************************************)
(* A model of the reference-counted handles of shared_ptr.h:               *)
(* counting_block with its two counters, shared_ptr and weak_ptr.          *)
(*                                                                         *)
(* Handles live in a fixed number of slots (a slot is a variable of the   *)
(* client program; a dead slot is a variable that is out of scope).  Every *)
(* allocation attempt takes a fresh identity n: the object is n and, when  *)
(* the allocation of the block succeeds, the block is n as well.           *)
(*                                                                         *)
(* counter and weak_counter are size_t.  The model stores the signed       *)
(* representative k of the value k mod 2^64 (the value use_count() returns *)
(* as long): 0 - 1 is stored as -1, which is non-zero exactly as 2^64 - 1  *)
(* is.  The guards keep |k| small, so the test against zero agrees with    *)
(* the 64 bit one.                                                         *)
(*                                                                         *)
(* Dereferencing a freed block is undefined behaviour: the model records   *)
(* it in ub and stops there, since anything may follow.                    *)
(*                                                                         *)
(* Spec and SpecNoFail are programs over shared_ptr<int>, weak_ptr<int>.   *)
(* ListSpec is a program over struct Node { shared_ptr<Node> next; }: the  *)
(* managed object holds a handle itself, which its destructor releases.    *)
(***************************************************************************)
EXTENDS Integers, FiniteSets, TLC

\* ------------------------------------------------------------------ bounds
NumShared == 2      \* shared_ptr slots
NumWeak == 2        \* weak_ptr slots
MaxBlocks == 2      \* allocation attempts (objects / control blocks)
MaxCount == 3       \* cap on counter and weak_counter (increments are guarded)
MaxFail == 1        \* allocation failures of `new pointing_block`
MaxDel == 2         \* ndel saturates here (2 means "twice or more")

Shared == 1..NumShared
Weak == 1..NumWeak
Blocks == 1..MaxBlocks
NullBlock == 0
NullPtr == 0


\* addresses: the object managed by block b, and a sub-object (a field) of it
ObjAddr(b) == 2 * b - 1
SubAddr(b) == 2 * b

VARIABLES
    blocks,   \* b -> [st, counter, weak_counter, ndel]
    sp,       \* shared_ptr slot -> [live, m_block, m_ptr]
    wp,       \* weak_ptr slot   -> [live, m_block, m_ptr]
    next,     \* next fresh allocation identity
    nfail,    \* allocation failures so far
    ub,       \* undefined behaviour has happened
    last,     \* the operation that produced this state
    member    \* b -> the shared_ptr stored inside the object of block b

vars == <<blocks, sp, wp, next, nfail, ub, last, member>>

\* ----------------------------------------------------------- counting_block
\* a block that was never allocated (st = "none"); ndel still counts the
\* deleter calls on the object of that identity
NoBlock == [st |-> "none", counter |-> 0, weak_counter |-> 0, ndel |-> 0]

\* counting_block as constructed: counter = 0, weak_counter = 0
NewBlock == [st |-> "live", counter |-> 0, weak_counter |-> 0, ndel |-> 0]

Min(a, b) == IF a < b THEN a ELSE b

\* pointing_block::delete_object / owning_block::delete_object: the deleter or
\* the destructor runs on the object; the block itself stays allocated
delete_object(B, b) == [B EXCEPT ![b].ndel = Min(@ + 1, MaxDel)]

\* add_shared in which the shared_ptrs of a block hold one weak unit together:
\* only the first one takes it
add_shared_group(B, b) ==
    [B EXCEPT ![b].counter = @ + 1,
              ![b].weak_counter = IF B[b].counter = 0 THEN @ + 1 ELSE @]

add_shared(B, b) == [B EXCEPT ![b].counter = @ + 1, ![b].weak_counter = @ + 1]

\* add_weak that takes a strong unit as well: the observer would own the object
add_weak_owning(B, b) ==
    [B EXCEPT ![b].counter = @ + 1, ![b].weak_counter = @ + 1]

add_weak(B, b) == [B EXCEPT ![b].weak_counter = @ + 1]

delete_shared(B, b) ==
    LET B1 == [B EXCEPT ![b].counter = @ - 1, ![b].weak_counter = @ - 1]
    IN  IF B1[b].counter = 0 THEN delete_object(B1, b) ELSE B1

\* should_delete_weak decrements weak_counter and tells whether it is now zero
dec_weak(B, b) == [B EXCEPT ![b].weak_counter = @ - 1]
should_delete_weak(B, b) == dec_weak(B, b)[b].weak_counter = 0

\* `delete m_block`
delete_block(B, b) == [B EXCEPT ![b].st = "freed"]

add_shared_or_null(B, b) == IF b # NullBlock THEN add_shared(B, b) ELSE B

add_weak_or_null(B, b) == IF b # NullBlock THEN add_weak(B, b) ELSE B

\* if (m_block) m_block->delete_shared();
release_shared(B, b) == IF b # NullBlock THEN delete_shared(B, b) ELSE B

\* if (m_block && m_block->should_delete_weak()) delete m_block;
release_weak(B, b) ==
    IF b = NullBlock THEN B
    ELSE IF should_delete_weak(B, b) THEN delete_block(dec_weak(B, b), b)
    ELSE dec_weak(B, b)

\* ------------------------------------------------------------------ handles
Dead == [live |-> FALSE, m_block |-> NullBlock, m_ptr |-> NullPtr]
Handle(b, p) == [live |-> TRUE, m_block |-> b, m_ptr |-> p]
Null == Handle(NullBlock, NullPtr)

\* the block b is dereferenced although it has been freed
Freed(B, b) == b # NullBlock /\ B[b].st = "freed"

\* the increments stay below the cap
CanAdd(b) ==
    b # NullBlock =>
        blocks[b].counter < MaxCount /\ blocks[b].weak_counter < MaxCount

\* observers
use_count(h) == IF h.m_block # NullBlock THEN blocks[h.m_block].counter ELSE 0
bool(h) == h.m_ptr # NullPtr
expired(h) == h.m_block = NullBlock \/ blocks[h.m_block].counter = 0

\* last names the operation only
Op(name, dst, src) == name

\* a step that dereferences a freed block
Undefined(name, dst, src) ==
    /\ ub' = TRUE
    /\ last' = Op(name, dst, src)
    /\ UNCHANGED <<member, blocks, sp, wp, next, nfail>>

\* ------------------------------------------------------------- shared_ptr
\* shared_ptr() / shared_ptr(nullptr_t)
SharedDefault(i) ==
    /\ ~ub /\ ~sp[i].live
    /\ sp' = [sp EXCEPT ![i] = Null]
    /\ last' = Op("SharedDefault", i, 0)
    /\ UNCHANGED <<member, blocks, wp, next, nfail, ub>>

\* the body shared by shared_ptr(Y *, Deleter) and reset(Y *, Deleter):
\* try { m_block = new pointing_block{ptr, d}; m_block->add_shared(); }
\* catch (...) { d(ptr); }        -- the exception is not thrown again
adopt(B, n, fail) ==
    IF fail THEN [B EXCEPT ![n].ndel = Min(@ + 1, MaxDel)]
    ELSE add_shared([B EXCEPT ![n] = NewBlock], n)

\* explicit shared_ptr(Y * ptr, Deleter d): m_block(nullptr), m_ptr(ptr), then adopt
SharedFromRaw(i, fail) ==
    /\ ~ub /\ ~sp[i].live
    /\ next <= MaxBlocks
    /\ fail => nfail < MaxFail
    /\ blocks' = adopt(blocks, next, fail)
    /\ sp' = [sp EXCEPT ![i] = Handle(IF fail THEN NullBlock ELSE next, ObjAddr(next))]
    /\ next' = next + 1
    /\ nfail' = IF fail THEN nfail + 1 ELSE nfail
    /\ last' = Op(IF fail THEN "SharedFromRawFail" ELSE "SharedFromRaw", i, 0)
    /\ UNCHANGED <<member, wp, ub>>

\* make_shared that omits block->add_shared()
make_shared_uncounted(i) ==
    /\ ~ub /\ ~sp[i].live
    /\ next <= MaxBlocks
    /\ blocks' = [blocks EXCEPT ![next] = NewBlock]
    /\ sp' = [sp EXCEPT ![i] = Handle(next, ObjAddr(next))]
    /\ next' = next + 1
    /\ last' = Op("make_shared", i, 0)
    /\ UNCHANGED <<member, wp, nfail, ub>>

\* make_shared: new owning_block, add_shared, shared_ptr{block, block->get_ptr()}
make_shared(i) ==
    /\ ~ub /\ ~sp[i].live
    /\ next <= MaxBlocks
    /\ blocks' = add_shared([blocks EXCEPT ![next] = NewBlock], next)
    /\ sp' = [sp EXCEPT ![i] = Handle(next, ObjAddr(next))]
    /\ next' = next + 1
    /\ last' = Op("make_shared", i, 0)
    /\ UNCHANGED <<member, wp, nfail, ub>>

\* make_shared when T's constructor throws inside owning_block's constructor:
\* the new-expression gives the storage back and the exception leaves
\* make_shared before add_shared and before any shared_ptr is built
make_shared_throws(i) ==
    /\ ~ub /\ ~sp[i].live
    /\ next <= MaxBlocks
    /\ last' = Op("make_shared_throws", i, 0)
    /\ UNCHANGED <<member, blocks, sp, wp, next, nfail, ub>>

\* shared_ptr(const shared_ptr<Y> & master, T * slave)
SharedAlias(i, j, p) ==
    /\ ~ub /\ ~sp[i].live /\ sp[j].live
    /\ CanAdd(sp[j].m_block)
    /\ IF Freed(blocks, sp[j].m_block) THEN Undefined("SharedAlias", i, j)
       ELSE /\ blocks' = add_shared_or_null(blocks, sp[j].m_block)
            /\ sp' = [sp EXCEPT ![i] = Handle(sp[j].m_block, p)]
            /\ last' = Op("SharedAlias", i, j)
            /\ UNCHANGED <<member, wp, next, nfail, ub>>

\* shared_ptr(const shared_ptr & other), shared_ptr(const shared_ptr<Y> & other)
SharedCopy(i, j) ==
    /\ ~ub /\ ~sp[i].live /\ sp[j].live
    /\ CanAdd(sp[j].m_block)
    /\ IF Freed(blocks, sp[j].m_block) THEN Undefined("SharedCopy", i, j)
       ELSE /\ blocks' = add_shared_or_null(blocks, sp[j].m_block)
            /\ sp' = [sp EXCEPT ![i] = Handle(sp[j].m_block, sp[j].m_ptr)]
            /\ last' = Op("SharedCopy", i, j)
            /\ UNCHANGED <<member, wp, next, nfail, ub>>

\* operator = (const shared_ptr & rhs)
SharedCopyAssign(i, j) ==
    /\ ~ub /\ sp[i].live /\ sp[j].live
    /\ i # j => CanAdd(sp[j].m_block)
    /\ IF i = j
       THEN /\ last' = Op("SharedCopyAssign", i, j)
            /\ UNCHANGED <<member, blocks, sp, wp, next, nfail, ub>>
       ELSE IF Freed(blocks, sp[i].m_block) \/ Freed(blocks, sp[j].m_block)
       THEN Undefined("SharedCopyAssign", i, j)
       ELSE /\ blocks' = add_shared_or_null(release_shared(blocks, sp[i].m_block),
                                            sp[j].m_block)
            /\ sp' = [sp EXCEPT ![i] = Handle(sp[j].m_block, sp[j].m_ptr)]
            /\ last' = Op("SharedCopyAssign", i, j)
            /\ UNCHANGED <<member, wp, next, nfail, ub>>

\* shared_ptr(shared_ptr && other), shared_ptr(shared_ptr<Y> && other)
SharedMove(i, j) ==
    /\ ~ub /\ ~sp[i].live /\ sp[j].live
    /\ sp' = [sp EXCEPT ![i] = Handle(sp[j].m_block, sp[j].m_ptr), ![j] = Null]
    /\ last' = Op("SharedMove", i, j)
    /\ UNCHANGED <<member, blocks, wp, next, nfail, ub>>

\* operator = (shared_ptr && other) without the two assignments that clear other
SharedMoveAssignKeepsSource(i, j) ==
    /\ ~ub /\ sp[i].live /\ sp[j].live
    /\ IF i = j
       THEN /\ last' = Op("SharedMoveAssign", i, j)
            /\ UNCHANGED <<member, blocks, sp, wp, next, nfail, ub>>
       ELSE IF Freed(blocks, sp[i].m_block)
       THEN Undefined("SharedMoveAssign", i, j)
       ELSE /\ blocks' = release_shared(blocks, sp[i].m_block)
            /\ sp' = [sp EXCEPT ![i] = Handle(sp[j].m_block, sp[j].m_ptr)]
            /\ last' = Op("SharedMoveAssign", i, j)
            /\ UNCHANGED <<member, wp, next, nfail, ub>>

\* operator = (shared_ptr && other)
SharedMoveAssign(i, j) ==
    /\ ~ub /\ sp[i].live /\ sp[j].live
    /\ IF i = j
       THEN /\ last' = Op("SharedMoveAssign", i, j)
            /\ UNCHANGED <<member, blocks, sp, wp, next, nfail, ub>>
       ELSE IF Freed(blocks, sp[i].m_block)
       THEN Undefined("SharedMoveAssign", i, j)
       ELSE /\ blocks' = release_shared(blocks, sp[i].m_block)
            /\ sp' = [sp EXCEPT ![i] = Handle(sp[j].m_block, sp[j].m_ptr), ![j] = Null]
            /\ last' = Op("SharedMoveAssign", i, j)
            /\ UNCHANGED <<member, wp, next, nfail, ub>>

\* shared_ptr(const weak_ptr<Y> & weak), shared_ptr(const weak_ptr<T> & weak):
\* m_block(add_shared_or_null(weak.m_block)), m_ptr(weak.m_ptr)
SharedFromWeak(i, w) ==
    /\ ~ub /\ ~sp[i].live /\ wp[w].live
    /\ CanAdd(wp[w].m_block)
    /\ IF Freed(blocks, wp[w].m_block) THEN Undefined("SharedFromWeak", i, w)
       ELSE /\ blocks' = add_shared_or_null(blocks, wp[w].m_block)
            /\ sp' = [sp EXCEPT ![i] = Handle(wp[w].m_block, wp[w].m_ptr)]
            /\ last' = Op("SharedFromWeak", i, w)
            /\ UNCHANGED <<member, wp, next, nfail, ub>>

\* ~shared_ptr()
SharedDtor(i) ==
    /\ ~ub /\ sp[i].live
    /\ IF Freed(blocks, sp[i].m_block) THEN Undefined("SharedDtor", i, 0)
       ELSE /\ blocks' = release_shared(blocks, sp[i].m_block)
            /\ sp' = [sp EXCEPT ![i] = Dead]
            /\ last' = Op("SharedDtor", i, 0)
            /\ UNCHANGED <<member, wp, next, nfail, ub>>

\* reset()
SharedReset(i) ==
    /\ ~ub /\ sp[i].live
    /\ IF Freed(blocks, sp[i].m_block) THEN Undefined("SharedReset", i, 0)
       ELSE /\ blocks' = release_shared(blocks, sp[i].m_block)
            /\ sp' = [sp EXCEPT ![i] = Null]
            /\ last' = Op("SharedReset", i, 0)
            /\ UNCHANGED <<member, wp, next, nfail, ub>>

\* reset(Y * ptr, Deleter d): release, then adopt; m_block and m_ptr are
\* assigned inside the try block only, so a failure leaves both as they were
SharedResetPtr(i, fail) ==
    /\ ~ub /\ sp[i].live
    /\ next <= MaxBlocks
    /\ fail => nfail < MaxFail
    /\ IF Freed(blocks, sp[i].m_block) THEN Undefined("SharedResetPtr", i, 0)
       ELSE /\ blocks' = adopt(release_shared(blocks, sp[i].m_block), next, fail)
            /\ sp' = IF fail THEN sp
                     ELSE [sp EXCEPT ![i] = Handle(next, ObjAddr(next))]
            /\ next' = next + 1
            /\ nfail' = IF fail THEN nfail + 1 ELSE nfail
            /\ last' = Op(IF fail THEN "SharedResetPtrFail" ELSE "SharedResetPtr", i, 0)
            /\ UNCHANGED <<member, wp, ub>>

\* --------------------------------------------------------------- weak_ptr
\* weak_ptr()
WeakDefault(j) ==
    /\ ~ub /\ ~wp[j].live
    /\ wp' = [wp EXCEPT ![j] = Null]
    /\ last' = Op("WeakDefault", j, 0)
    /\ UNCHANGED <<member, blocks, sp, next, nfail, ub>>

\* weak_ptr(const weak_ptr & other), weak_ptr(const weak_ptr<Y> & other)
WeakCopy(j, k) ==
    /\ ~ub /\ ~wp[j].live /\ wp[k].live
    /\ CanAdd(wp[k].m_block)
    /\ IF Freed(blocks, wp[k].m_block) THEN Undefined("WeakCopy", j, k)
       ELSE /\ blocks' = add_weak_or_null(blocks, wp[k].m_block)
            /\ wp' = [wp EXCEPT ![j] = Handle(wp[k].m_block, wp[k].m_ptr)]
            /\ last' = Op("WeakCopy", j, k)
            /\ UNCHANGED <<member, sp, next, nfail, ub>>

\* weak_ptr(const shared_ptr<Y> & other)
WeakFromShared(j, i) ==
    /\ ~ub /\ ~wp[j].live /\ sp[i].live
    /\ CanAdd(sp[i].m_block)
    /\ IF Freed(blocks, sp[i].m_block) THEN Undefined("WeakFromShared", j, i)
       ELSE /\ blocks' = add_weak_or_null(blocks, sp[i].m_block)
            /\ wp' = [wp EXCEPT ![j] = Handle(sp[i].m_block, sp[i].m_ptr)]
            /\ last' = Op("WeakFromShared", j, i)
            /\ UNCHANGED <<member, sp, next, nfail, ub>>

\* weak_ptr(weak_ptr && other): m_block(add_weak_or_null(other.m_block)),
\* then other is cleared
WeakMove(j, k) ==
    /\ ~ub /\ ~wp[j].live /\ wp[k].live
    /\ CanAdd(wp[k].m_block)
    /\ IF Freed(blocks, wp[k].m_block) THEN Undefined("WeakMove", j, k)
       ELSE /\ blocks' = add_weak_or_null(blocks, wp[k].m_block)
            /\ wp' = [wp EXCEPT ![j] = Handle(wp[k].m_block, wp[k].m_ptr), ![k] = Null]
            /\ last' = Op("WeakMove", j, k)
            /\ UNCHANGED <<member, sp, next, nfail, ub>>

\* weak_ptr(weak_ptr<Y> && other): m_block(other.m_block), then other is cleared
WeakMoveConv(j, k) ==
    /\ ~ub /\ ~wp[j].live /\ wp[k].live
    /\ wp' = [wp EXCEPT ![j] = Handle(wp[k].m_block, wp[k].m_ptr), ![k] = Null]
    /\ last' = Op("WeakMoveConv", j, k)
    /\ UNCHANGED <<member, blocks, sp, next, nfail, ub>>

\* ~weak_ptr()
WeakDtor(j) ==
    /\ ~ub /\ wp[j].live
    /\ IF Freed(blocks, wp[j].m_block) THEN Undefined("WeakDtor", j, 0)
       ELSE /\ blocks' = release_weak(blocks, wp[j].m_block)
            /\ wp' = [wp EXCEPT ![j] = Dead]
            /\ last' = Op("WeakDtor", j, 0)
            /\ UNCHANGED <<member, sp, next, nfail, ub>>

\* operator = (const weak_ptr & other), operator = (const weak_ptr<Y> & other)
WeakCopyAssign(j, k) ==
    /\ ~ub /\ wp[j].live /\ wp[k].live
    /\ j # k => CanAdd(wp[k].m_block)
    /\ IF j = k
       THEN /\ last' = Op("WeakCopyAssign", j, k)
            /\ UNCHANGED <<member, blocks, sp, wp, next, nfail, ub>>
       ELSE IF \/ Freed(blocks, wp[j].m_block)
               \/ Freed(release_weak(blocks, wp[j].m_block), wp[k].m_block)
       THEN Undefined("WeakCopyAssign", j, k)
       ELSE /\ blocks' = add_weak_or_null(release_weak(blocks, wp[j].m_block),
                                          wp[k].m_block)
            /\ wp' = [wp EXCEPT ![j] = Handle(wp[k].m_block, wp[k].m_ptr)]
            /\ last' = Op("WeakCopyAssign", j, k)
            /\ UNCHANGED <<member, sp, next, nfail, ub>>

\* operator = (const shared_ptr<Y> & other): the old block is not released
WeakAssignShared(j, i) ==
    /\ ~ub /\ wp[j].live /\ sp[i].live
    /\ CanAdd(sp[i].m_block)
    /\ IF Freed(blocks, sp[i].m_block) THEN Undefined("WeakAssignShared", j, i)
       ELSE /\ blocks' = add_weak_or_null(blocks, sp[i].m_block)
            /\ wp' = [wp EXCEPT ![j] = Handle(sp[i].m_block, sp[i].m_ptr)]
            /\ last' = Op("WeakAssignShared", j, i)
            /\ UNCHANGED <<member, sp, next, nfail, ub>>

\* operator = (weak_ptr && other)
WeakMoveAssign(j, k) ==
    /\ ~ub /\ wp[j].live /\ wp[k].live
    /\ IF j = k
       THEN /\ last' = Op("WeakMoveAssign", j, k)
            /\ UNCHANGED <<member, blocks, sp, wp, next, nfail, ub>>
       ELSE IF Freed(blocks, wp[j].m_block)
       THEN Undefined("WeakMoveAssign", j, k)
       ELSE /\ blocks' = release_weak(blocks, wp[j].m_block)
            /\ wp' = [wp EXCEPT ![j] = Handle(wp[k].m_block, wp[k].m_ptr), ![k] = Null]
            /\ last' = Op("WeakMoveAssign", j, k)
            /\ UNCHANGED <<member, sp, next, nfail, ub>>

\* operator = (weak_ptr<Y> && other): the old block is not released and other
\* is not cleared
WeakMoveAssignConv(j, k) ==
    /\ ~ub /\ wp[j].live /\ wp[k].live /\ j # k
    /\ CanAdd(wp[k].m_block)
    /\ IF Freed(blocks, wp[k].m_block) THEN Undefined("WeakMoveAssignConv", j, k)
       ELSE /\ blocks' = add_weak_or_null(blocks, wp[k].m_block)
            /\ wp' = [wp EXCEPT ![j] = Handle(wp[k].m_block, wp[k].m_ptr)]
            /\ last' = Op("WeakMoveAssignConv", j, k)
            /\ UNCHANGED <<member, sp, next, nfail, ub>>

\* lock(): expired() ? shared_ptr<T>() : shared_ptr<T>(*this); the result is
\* the new shared_ptr in slot i
lock(i, w) ==
    /\ ~ub /\ ~sp[i].live /\ wp[w].live
    /\ CanAdd(wp[w].m_block)
    /\ IF Freed(blocks, wp[w].m_block) THEN Undefined("lock", i, w)
       ELSE IF expired(wp[w])
       THEN /\ sp' = [sp EXCEPT ![i] = Null]
            /\ last' = Op("lock", i, w)
            /\ UNCHANGED <<member, blocks, wp, next, nfail, ub>>
       ELSE /\ blocks' = add_shared_or_null(blocks, wp[w].m_block)
            /\ sp' = [sp EXCEPT ![i] = Handle(wp[w].m_block, wp[w].m_ptr)]
            /\ last' = Op("lock", i, w)
            /\ UNCHANGED <<member, wp, next, nfail, ub>>

\* the element pointers a client passes as the alias of master: a sub-object of
\* the object master owns
AliasPtrs(j) ==
    IF sp[j].m_block = NullBlock THEN {NullPtr} ELSE {SubAddr(sp[j].m_block)}

Init ==
    /\ blocks = [b \in Blocks |-> NoBlock]
    /\ sp = [i \in Shared |-> Dead]
    /\ wp = [j \in Weak |-> Dead]
    /\ next = 1
    /\ nfail = 0
    /\ ub = FALSE
    /\ last = "init"
    /\ member = [b \in Blocks |-> Dead]

\* one operation of the client program; Fails is the set of outcomes the
\* allocation of a pointing_block may have (TRUE: new throws)
Step(Fails) ==
    \/ \E i \in Shared : SharedDefault(i)
    \/ \E i \in Shared, fail \in Fails : SharedFromRaw(i, fail)
    \/ \E i \in Shared : make_shared(i)
    \/ \E i \in Shared : make_shared_throws(i)
    \/ \E i, j \in Shared : \E p \in AliasPtrs(j) : SharedAlias(i, j, p)
    \/ \E i, j \in Shared : SharedCopy(i, j)
    \/ \E i, j \in Shared : SharedCopyAssign(i, j)
    \/ \E i, j \in Shared : SharedMove(i, j)
    \/ \E i, j \in Shared : SharedMoveAssign(i, j)
    \/ \E i \in Shared, w \in Weak : SharedFromWeak(i, w)
    \/ \E i \in Shared : SharedDtor(i)
    \/ \E i \in Shared : SharedReset(i)
    \/ \E i \in Shared, fail \in Fails : SharedResetPtr(i, fail)
    \/ \E j \in Weak : WeakDefault(j)
    \/ \E j, k \in Weak : WeakCopy(j, k)
    \/ \E j \in Weak, i \in Shared : WeakFromShared(j, i)
    \/ \E j, k \in Weak : WeakMove(j, k)
    \/ \E j, k \in Weak : WeakMoveConv(j, k)
    \/ \E j \in Weak : WeakDtor(j)
    \/ \E j, k \in Weak : WeakCopyAssign(j, k)
    \/ \E j \in Weak, i \in Shared : WeakAssignShared(j, i)
    \/ \E j, k \in Weak : WeakMoveAssign(j, k)
    \/ \E j, k \in Weak : WeakMoveAssignConv(j, k)
    \/ \E i \in Shared, w \in Weak : lock(i, w)

Next == Step(BOOLEAN)

Spec == Init /\ [][Next]_vars

\* the same program when no allocation fails
NextNoFail == Step({FALSE})

SpecNoFail == Init /\ [][NextNoFail]_vars

TypeOK ==
    /\ \A b \in Blocks :
        /\ blocks[b].st \in {"none", "live", "freed"}
        /\ blocks[b].counter \in (0 - MaxFail)..MaxCount
        /\ blocks[b].weak_counter \in (0 - MaxFail)..MaxCount
        /\ blocks[b].ndel \in 0..MaxDel
    /\ \A i \in Shared : sp[i].m_block \in {NullBlock} \cup Blocks
    /\ \A j \in Weak : wp[j].m_block \in {NullBlock} \cup Blocks
    /\ next \in 1..(MaxBlocks + 1)
    /\ nfail \in 0..MaxFail
    /\ \A b \in Blocks : member[b].m_block \in {NullBlock} \cup Blocks

\* ------------------------------------------------- handles inside objects
\* struct Node { shared_ptr<Node> next; }: member[b] is the field next of the
\* Node that block b manages.  member[b].live tells whether the Node is within
\* its lifetime; after ~Node the record keeps the bits the field had, which is
\* what a read of the destroyed field finds if the storage was not reused.

\* delete_shared on block b when the object is a Node: delete_object runs
\* ~Node, which runs ~shared_ptr on the field, which calls delete_shared on the
\* block the field references.  BM is [blocks, member].
RECURSIVE delete_shared_node(_, _)
delete_shared_node(BM, b) ==
    LET B1 == [BM.blocks EXCEPT ![b].counter = @ - 1, ![b].weak_counter = @ - 1]
    IN  IF B1[b].counter # 0
        THEN [blocks |-> B1, member |-> BM.member]
        ELSE LET BM2 == [blocks |-> delete_object(B1, b),
                         member |-> [BM.member EXCEPT ![b].live = FALSE]]
             IN  IF BM.member[b].m_block # NullBlock
                 THEN delete_shared_node(BM2, BM.member[b].m_block)
                 ELSE BM2

\* if (m_block) m_block->delete_shared();
release_shared_node(BM, b) ==
    IF b # NullBlock THEN delete_shared_node(BM, b) ELSE BM

\* shared_ptr<Node> p = make_shared<Node>(): the field next of the Node is null
NewNode(i) ==
    /\ ~ub /\ ~sp[i].live
    /\ next <= MaxBlocks
    /\ blocks' = add_shared([blocks EXCEPT ![next] = NewBlock], next)
    /\ member' = [member EXCEPT ![next] = Null]
    /\ sp' = [sp EXCEPT ![i] = Handle(next, ObjAddr(next))]
    /\ next' = next + 1
    /\ last' = Op("NewNode", i, 0)
    /\ UNCHANGED <<wp, nfail, ub>>

\* p->next = q: operator = (const shared_ptr & rhs) on the field of the Node
\* p points to; rhs is the client's variable q
SetNext(i, j) ==
    /\ ~ub /\ sp[i].live /\ sp[j].live
    /\ sp[i].m_block # NullBlock
    /\ CanAdd(sp[j].m_block)
    /\ IF ~member[sp[i].m_block].live THEN Undefined("SetNext", i, j)
       ELSE LET a == sp[i].m_block
                BM1 == release_shared_node([blocks |-> blocks, member |-> member],
                                           member[a].m_block)
            IN  /\ blocks' = add_shared_or_null(BM1.blocks, sp[j].m_block)
                /\ member' = [BM1.member EXCEPT ![a].m_block = sp[j].m_block,
                                                ![a].m_ptr = sp[j].m_ptr]
                /\ last' = Op("SetNext", i, j)
                /\ UNCHANGED <<sp, wp, next, nfail, ub>>

\* p = p->next: operator = (const shared_ptr & rhs) where rhs is the field of
\* the Node p points to.  The block of p is released first; when that destroys
\* the Node, rhs is destroyed with it and the two reads of rhs that follow are
\* undefined: they find the old bits (stale) or anything else.
AssignNext(i, stale) ==
    /\ ~ub /\ sp[i].live
    /\ sp[i].m_block # NullBlock
    /\ IF ~member[sp[i].m_block].live THEN Undefined("AssignNext", i, 0)
       ELSE LET a == sp[i].m_block
                BM1 == delete_shared_node([blocks |-> blocks, member |-> member], a)
                rhs == BM1.member[a]
            IN  IF ~rhs.live /\ ~stale THEN Undefined("AssignNext", i, 0)
                ELSE /\ rhs.m_block # NullBlock =>
                            BM1.blocks[rhs.m_block].counter < MaxCount
                     /\ blocks' = add_shared_or_null(BM1.blocks, rhs.m_block)
                     /\ member' = BM1.member
                     /\ sp' = [sp EXCEPT ![i] = Handle(rhs.m_block, rhs.m_ptr)]
                     /\ last' = Op("AssignNext", i, 0)
                     /\ UNCHANGED <<wp, next, nfail, ub>>

\* ~shared_ptr() of a client's shared_ptr<Node>
NodeDtor(i) ==
    /\ ~ub /\ sp[i].live
    /\ LET BM1 == release_shared_node([blocks |-> blocks, member |-> member],
                                      sp[i].m_block)
       IN  /\ blocks' = BM1.blocks
           /\ member' = BM1.member
    /\ sp' = [sp EXCEPT ![i] = Dead]
    /\ last' = Op("NodeDtor", i, 0)
    /\ UNCHANGED <<wp, next, nfail, ub>>

\* one operation of a client program that builds and walks a list of Nodes
ListNext ==
    \/ \E i \in Shared : NewNode(i)
    \/ \E i, j \in Shared : SharedCopy(i, j)
    \/ \E i, j \in Shared : SetNext(i, j)
    \/ \E i \in Shared, stale \in BOOLEAN : AssignNext(i, stale)
    \/ \E i \in Shared : NodeDtor(i)

ListSpec == Init /\ [][ListNext]_vars

\* ------------------------------------------------------------------ claims
\* the live handles whose m_block is b
SharedOn(b) == {i \in Shared : sp[i].live /\ sp[i].m_block = b}
WeakOn(b) == {j \in Weak : wp[j].live /\ wp[j].m_block = b}
Allocated(b) == blocks[b].st # "none"

\* C1: delete_object runs on a block's object at most once, never while a
\* shared_ptr on that block is live, and exactly once by the time no
\* shared_ptr on the block is left.
C1_DisposedExactlyOnce ==
    \A b \in Blocks :
        Allocated(b) =>
            /\ blocks[b].ndel <= 1
            /\ blocks[b].ndel >= 1 => SharedOn(b) = {}
            /\ SharedOn(b) = {} => blocks[b].ndel = 1

\* C2: no live handle holds a freed block, and weak_counter is 0 only when
\* no shared_ptr and no weak_ptr references the block.
C2_BlockOutlivesHandles ==
    \A b \in Blocks :
        /\ blocks[b].st = "freed" => SharedOn(b) \cup WeakOn(b) = {}
        /\ (blocks[b].st = "live" /\ blocks[b].weak_counter = 0)
               => SharedOn(b) \cup WeakOn(b) = {}

\* C3: once every shared_ptr and weak_ptr of a block has been released, the
\* block has been freed (the release that takes weak_counter to zero frees it).
C3_ReleasedBlockIsFreed ==
    \A b \in Blocks :
        (Allocated(b) /\ SharedOn(b) \cup WeakOn(b) = {}) => blocks[b].st = "freed"

\* C4: use_count() of a non-empty shared_ptr is the number of live shared_ptr
\* handles that reference its block.
C4_UseCountIsHandleCount ==
    \A i \in Shared :
        (sp[i].live /\ sp[i].m_block # NullBlock /\ ~Freed(blocks, sp[i].m_block))
            => use_count(sp[i]) = Cardinality(SharedOn(sp[i].m_block))

\* C5: a shared_ptr with use_count() > 0 references a block whose object has
\* not been disposed.
C5_CountedObjectIsAlive ==
    \A i \in Shared :
        (sp[i].live /\ sp[i].m_block # NullBlock /\ ~Freed(blocks, sp[i].m_block)
                    /\ use_count(sp[i]) > 0)
            => blocks[sp[i].m_block].ndel = 0

\* C6: shared_ptr(const weak_ptr &) of an expired weak_ptr (no block, or a
\* block whose counter is 0) is a null shared_ptr and changes no count; of a
\* weak_ptr that is not expired it adds one to counter and weak_counter and
\* takes the cached element pointer.
C6_FromWeakChecksExpired ==
    [][\A i \in Shared, w \in Weak :
        (SharedFromWeak(i, w) /\ ~ub') =>
            IF expired(wp[w])
            THEN sp'[i] = Null /\ blocks' = blocks
            ELSE /\ sp'[i] = Handle(wp[w].m_block, wp[w].m_ptr)
                 /\ blocks' = add_shared(blocks, wp[w].m_block)]_vars

\* a weak_ptr whose block has no shared_ptr left
Orphaned(h) ==
    /\ h.live /\ h.m_block # NullBlock /\ ~Freed(blocks, h.m_block)
    /\ SharedOn(h.m_block) = {}

\* C7: once every shared_ptr on a block is released, every weak_ptr on the
\* block is expired, and lock() on it returns a null shared_ptr and changes
\* neither the counts nor the number of disposals.
C7_LockAfterLastRelease ==
    [][/\ (\A w \in Weak : Orphaned(wp[w]) => expired(wp[w]))'
       /\ \A i \in Shared, w \in Weak :
            (lock(i, w) /\ Orphaned(wp[w])) =>
                (sp'[i] = Null /\ use_count(sp'[i]) = 0 /\ blocks' = blocks)]_vars

\* C8: while a shared_ptr on the block is alive, lock() on a weak_ptr of the
\* block returns a non-null shared_ptr on the same block and element, and
\* counter and weak_counter each grow by one.
C8_LockWhileOwned ==
    [][\A i \in Shared, w \in Weak :
        (/\ lock(i, w) /\ ~ub'
         /\ wp[w].m_block # NullBlock
         /\ SharedOn(wp[w].m_block) # {}) =>
            /\ sp'[i] = Handle(wp[w].m_block, wp[w].m_ptr)
            /\ bool(sp'[i])
            /\ blocks' = add_shared(blocks, wp[w].m_block)]_vars

\* what a move may do to the counts: nothing, but for the release of the
\* block old that the target held
OnlyReleased(old) ==
    \A b \in Blocks :
        IF b = old
        THEN /\ blocks'[b].counter = blocks[b].counter - 1
             /\ blocks'[b].weak_counter = blocks[b].weak_counter - 1
        ELSE blocks'[b] = blocks[b]

\* C9 as stated: every move construction and every move assignment of a
\* shared_ptr leaves the source null (false, use_count() = 0) and changes no
\* count but for the release of the block the target held.
C9_MoveLeavesSourceNull ==
    [][\A i, j \in Shared :
        ((SharedMove(i, j) \/ SharedMoveAssign(i, j)) /\ ~ub') =>
            /\ sp'[j] = Null /\ ~bool(sp'[j]) /\ use_count(sp'[j]) = 0
            /\ OnlyReleased(IF i = j THEN NullBlock ELSE sp[i].m_block)]_vars

\* C9 as amended: a move construction, or a move assignment from another
\* handle, leaves the source null, hands its block and element pointer to the
\* target and changes no count but for the release of the block the target
\* held; a move assignment of a handle to itself changes nothing.
C9_MoveTransfers ==
    [][\A i, j \in Shared :
        ((SharedMove(i, j) \/ SharedMoveAssign(i, j)) /\ ~ub') =>
            IF i = j THEN sp' = sp /\ blocks' = blocks
            ELSE /\ sp'[j] = Null /\ ~bool(sp'[j]) /\ use_count(sp'[j]) = 0
                 /\ sp'[i] = sp[j]
                 /\ OnlyReleased(sp[i].m_block)]_vars

\* a move assignment has handed a block to its target and released the block
\* the target held
C9_Witness ==
    /\ last = "SharedMoveAssign" /\ ~ub
    /\ \E i, j \in Shared :
        /\ i # j /\ sp[j] = Null /\ sp[i].live
        /\ sp[i].m_block # NullBlock /\ use_count(sp[i]) = 1
        /\ \E b \in Blocks :
            b # sp[i].m_block /\ blocks[b].st = "live" /\ blocks[b].counter = 0

\* a shared_ptr other than j that shares j's block and exposes a sub-object
AliasOf(j) ==
    {k \in Shared \ {j} :
        /\ sp[k].live /\ sp[k].m_block = sp[j].m_block
        /\ sp[k].m_ptr = SubAddr(sp[j].m_block)}

\* C10: the aliasing constructor shares master's block (counter and
\* weak_counter each +1) and exposes the given element pointer; destroying or
\* resetting master while the alias lives does not dispose the object.
C10_AliasKeepsOwnerAlive ==
    [][/\ \A i, j \in Shared : \A p \in AliasPtrs(j) :
            (SharedAlias(i, j, p) /\ ~ub' /\ sp[j].m_block # NullBlock) =>
                /\ sp'[i] = Handle(sp[j].m_block, p)
                /\ blocks' = add_shared(blocks, sp[j].m_block)
       /\ \A j \in Shared :
            (/\ SharedDtor(j) \/ SharedReset(j)
             /\ ~ub' /\ sp[j].m_block # NullBlock /\ AliasOf(j) # {}) =>
                blocks'[sp[j].m_block].ndel = blocks[sp[j].m_block].ndel]_vars

\* C11: when the control block cannot be allocated, shared_ptr(Y *, Deleter)
\* runs the deleter once on the pointer and the failure propagates: no
\* shared_ptr is produced (none that points at the deleted object).
C11_RawFailurePropagates ==
    [][\A i \in Shared :
        SharedFromRaw(i, TRUE) =>
            /\ blocks'[next].ndel = 1
            /\ blocks'[next].st = "none"
            /\ ~sp'[i].live]_vars

\* C12: reset(Y *, Deleter) releases the block the handle held exactly once
\* and adopts the pointer; when the allocation fails the deleter runs on the
\* pointer and the handle no longer references the block it released, so no
\* counter is ever decremented below zero.
C12_ResetFailureDropsBlock ==
    [][/\ \A i \in Shared :
            (SharedResetPtr(i, TRUE) /\ ~ub') =>
                /\ blocks'[next].ndel = 1
                /\ sp[i].m_block # NullBlock =>
                    /\ blocks'[sp[i].m_block].counter
                           = blocks[sp[i].m_block].counter - 1
                    /\ sp'[i].m_block # sp[i].m_block
       /\ \A i \in Shared :
            (SharedResetPtr(i, FALSE) /\ ~ub') =>
                /\ sp'[i] = Handle(next, ObjAddr(next))
                /\ blocks'[next].counter = 1
                /\ sp[i].m_block # NullBlock =>
                    blocks'[sp[i].m_block].counter
                        = blocks[sp[i].m_block].counter - 1
       /\ (\A b \in Blocks :
            blocks[b].counter >= 0 /\ blocks[b].weak_counter >= 0)']_vars

\* the counts, the disposal count and the allocation state of block b are the
\* same after the step as before
SameBlockState(b) == blocks'[b] = blocks[b]

\* C13: assigning a handle to itself, or from a handle that already references
\* the same block (shared_ptr = shared_ptr, weak_ptr = weak_ptr,
\* weak_ptr = shared_ptr), leaves the strong and weak counts of that block
\* unchanged and neither disposes of the object nor frees the block.
C13_SameBlockAssignKeepsCounts ==
    [][/\ \A i, j \in Shared :
            (/\ SharedCopyAssign(i, j) /\ ~ub'
             /\ sp[i].m_block # NullBlock
             /\ sp[i].m_block = sp[j].m_block) => SameBlockState(sp[i].m_block)
       /\ \A j, k \in Weak :
            (/\ WeakCopyAssign(j, k) /\ ~ub'
             /\ wp[j].m_block # NullBlock
             /\ wp[j].m_block = wp[k].m_block) => SameBlockState(wp[j].m_block)
       /\ \A j \in Weak, i \in Shared :
            (/\ WeakAssignShared(j, i) /\ ~ub'
             /\ wp[j].m_block # NullBlock
             /\ wp[j].m_block = sp[i].m_block) => SameBlockState(wp[j].m_block)]_vars

\* weak_ptr j observed a block before the step and observes another one, or
\* none, after it: the old block has lost exactly one weak unit and is freed
\* if that was the last one
WeakReleased(j) ==
    LET old == wp[j].m_block
    IN  (old # NullBlock /\ wp'[j].m_block # old) =>
            /\ blocks'[old].weak_counter = blocks[old].weak_counter - 1
            /\ blocks'[old].weak_counter = 0 => blocks'[old].st = "freed"

\* C14: every way a weak_ptr stops observing a block (destructor, copy
\* assignment, move assignment, converting assignment, assignment from a
\* shared_ptr) decrements the weak count of the block it observed by exactly
\* one and frees the block when the count reaches zero.
C14_WeakStopReleasesOld ==
    [][/\ \A j \in Weak : (WeakDtor(j) /\ ~ub') => WeakReleased(j)
       /\ \A j, k \in Weak :
            (WeakCopyAssign(j, k) /\ ~ub') => WeakReleased(j)
       /\ \A j, k \in Weak :
            (WeakMoveAssign(j, k) /\ ~ub') => WeakReleased(j)
       /\ \A j, k \in Weak :
            (WeakMoveAssignConv(j, k) /\ ~ub') => WeakReleased(j)
       /\ \A j \in Weak, i \in Shared :
            (WeakAssignShared(j, i) /\ ~ub') => WeakReleased(j)]_vars

\* the operations of a weak_ptr that construct, copy, move, assign or destroy it
WeakStep ==
    \/ \E j \in Weak : WeakDefault(j) \/ WeakDtor(j)
    \/ \E j, k \in Weak :
        \/ WeakCopy(j, k) \/ WeakMove(j, k) \/ WeakMoveConv(j, k)
        \/ WeakCopyAssign(j, k) \/ WeakMoveAssign(j, k)
        \/ WeakMoveAssignConv(j, k)
    \/ \E j \in Weak, i \in Shared : WeakFromShared(j, i) \/ WeakAssignShared(j, i)

\* C15: a weak_ptr never keeps the object alive: constructing, copying,
\* moving, assigning or destroying a weak_ptr leaves every block's strong
\* count unchanged and never runs delete_object, and the object of a block no
\* shared_ptr references any more has been disposed of, however many
\* weak_ptrs still observe the block.  (The first conjunct is the
\* contrapositive: a step that changes a strong count or runs delete_object is
\* not an operation of a weak_ptr.)
C15_WeakNeverOwns ==
    [][/\ (\E b \in Blocks :
                \/ blocks'[b].counter # blocks[b].counter
                \/ blocks'[b].ndel # blocks[b].ndel) => ~WeakStep
       /\ \A b \in Blocks :
            (blocks'[b].st # "none" /\ SharedOn(b)' = {}) =>
                blocks'[b].ndel >= 1]_vars

\* the last shared_ptr of a block has just been released while two weak_ptrs
\* observe it: the object is disposed of, the block is still allocated
C15_Witness ==
    /\ last \in {"SharedDtor", "SharedReset"}
    /\ \E b \in Blocks :
        /\ SharedOn(b) = {} /\ Cardinality(WeakOn(b)) = 2
        /\ blocks[b].st = "live"
        /\ blocks[b].counter = 0 /\ blocks[b].ndel = 1

\* a block is freed only after delete_object has run on it and after every
\* handle on it is gone; until then it stays valid and, once no shared_ptr is
\* left, its strong count reads 0
FreedOnlyAfterDisposal ==
    \A b \in Blocks :
        /\ blocks[b].st = "freed" =>
            /\ blocks[b].ndel >= 1
            /\ SharedOn(b) = {} /\ WeakOn(b) = {}
        /\ (blocks[b].st = "live" /\ SharedOn(b) = {}) =>
            /\ blocks[b].ndel >= 1
            /\ blocks[b].counter = 0

\* C16: disposal precedes deallocation: a block is never freed before
\* delete_object has run on it; with a shared_ptr s and a weak_ptr w on a
\* block the block is freed after both s has been reset and w has been
\* destroyed, in either order, and not before; between disposal and
\* deallocation the block stays valid and its strong count reads 0.
C16_FreedAfterBothReleased ==
    /\ FreedOnlyAfterDisposal
    /\ \A b \in Blocks :
        (blocks[b].ndel >= 1 /\ SharedOn(b) = {} /\ WeakOn(b) = {}) =>
            blocks[b].st # "live"

\* C17: make_shared returns a shared_ptr with use_count() == 1 on a new block
\* whose strong and weak counts are 1 and whose element pointer is the
\* block's embedded object; when T's constructor throws, the failure
\* propagates and neither a shared_ptr nor a block remains.
C17_MakeShared ==
    [][/\ \A i \in Shared :
            make_shared(i) =>
                /\ sp'[i] = Handle(next, ObjAddr(next))
                /\ use_count(sp[i])' = 1
                /\ blocks'[next].st = "live"
                /\ blocks'[next].counter = 1
                /\ blocks'[next].weak_counter = 1
                /\ blocks'[next].ndel = 0
       /\ \A i \in Shared :
            make_shared_throws(i) =>
                /\ ~sp'[i].live
                /\ \A b \in Blocks : blocks'[b] = blocks[b]
                /\ blocks'[next].st = "none"]_vars

\* make_shared has just returned a handle that is the only one on its block
C17_Witness ==
    /\ last = "make_shared"
    /\ \E i \in Shared :
        /\ sp[i].live /\ bool(sp[i]) /\ use_count(sp[i]) = 1
        /\ sp[i].m_ptr = ObjAddr(sp[i].m_block)
        /\ SharedOn(sp[i].m_block) = {i}
        /\ blocks[sp[i].m_block].weak_counter = 1

\* the weak units of block b that no shared_ptr accounts for
WeakUnits(b) == blocks[b].weak_counter - blocks[b].counter

\* C18 as stated: a block's weak count is the number of weak_ptrs referencing
\* it plus exactly one when at least one shared_ptr references it; the group
\* of shared_ptrs holds a single unit.
C18_GroupHoldsOneUnit ==
    \A b \in Blocks :
        blocks[b].st = "live" =>
            blocks[b].weak_counter
                = Cardinality(WeakOn(b)) + (IF SharedOn(b) # {} THEN 1 ELSE 0)

\* C18 amended: every shared_ptr holds a weak unit of its own: the strong and
\* the weak count of a block change together in every step that is not an
\* operation of a weak_ptr, and the weak units beyond the strong count are at
\* least as many as the weak_ptrs referencing the block.
C18_EachSharedHoldsUnit ==
    [][/\ (\E b \in Blocks : WeakUnits(b)' # WeakUnits(b)) => WeakStep
       /\ \A b \in Blocks : WeakUnits(b)' >= Cardinality(WeakOn(b))']_vars

\* two shared_ptrs and a weak_ptr on one block: three weak units
C18_Witness ==
    \E b \in Blocks :
        /\ blocks[b].st = "live"
        /\ Cardinality(SharedOn(b)) = 2 /\ Cardinality(WeakOn(b)) = 1
        /\ blocks[b].counter = 2 /\ blocks[b].weak_counter = 3

\* weak_ptr k has been moved into weak_ptr j: k is empty, j holds what k held,
\* and the weak count of the moved block has changed exactly as the number of
\* weak_ptrs on it has (not at all unless j was on that block already)
WeakMoved(j, k) ==
    LET b == wp[k].m_block
    IN  /\ wp'[k] = Null
        /\ wp'[j] = Handle(b, wp[k].m_ptr)
        /\ b # NullBlock =>
            blocks'[b].weak_counter - blocks[b].weak_counter
                = Cardinality(WeakOn(b)') - Cardinality(WeakOn(b))

\* C19: move-constructing or move-assigning a weak_ptr (same-type and
\* converting overloads, also between two weak_ptrs on the same block) leaves
\* the source empty and transfers its weak unit: the weak units of the moved
\* block keep matching the weak_ptrs on it.
C19_WeakMoveTransfersUnit ==
    [][\A j, k \in Weak :
        (/\ j # k /\ ~ub'
         /\ \/ WeakMove(j, k) \/ WeakMoveConv(j, k)
            \/ WeakMoveAssign(j, k) \/ WeakMoveAssignConv(j, k)) =>
                WeakMoved(j, k)]_vars

\* the handles stored inside the objects that reference block b
MembersOn(b) == {c \in Blocks : member[c].live /\ member[c].m_block = b}

\* C20: copy assignment a = b is safe when b is a handle stored inside the
\* object that a alone keeps alive (head = head->next): b is not read after
\* it has been destroyed, and the block b references is acquired before the
\* release of a's previous block can dispose of its object, so a ends up on
\* that block with the object not disposed of by the assignment.
C20_AssignFromOwnedObject ==
    [][\A i \in Shared, stale \in BOOLEAN :
        (/\ AssignNext(i, stale)
         /\ member[sp[i].m_block].live
         /\ blocks[sp[i].m_block].counter = 1
         /\ SharedOn(sp[i].m_block) = {i} /\ MembersOn(sp[i].m_block) = {}
         /\ member[sp[i].m_block].m_block # NullBlock) =>
            LET b == member[sp[i].m_block].m_block
            IN  /\ ~ub'
                /\ sp'[i] = Handle(b, member[sp[i].m_block].m_ptr)
                /\ blocks'[b].ndel = blocks[b].ndel]_vars

====
